---- MODULE Spec2Model ----
(***************************************************************************)
(* Model of src/Image_Classification_CNN.ipynb: the FashionMNIST data      *)
(* loaders, ConvNetModel (shape and buffer effects of forward), train_loop,*)
(* test_loop and the driver cell that runs them for `epochs` epochs.       *)
(*                                                                         *)
(* Tensor values are abstracted: a tensor is its shape; the learnable      *)
(* parameters are a version number (how many optimizer updates they have   *)
(* received); a scalar loss is a natural number of abstract units; the     *)
(* arg-max of the output is drawn nondeterministically per example.        *)
(***************************************************************************)
EXTENDS Integers, Sequences, FiniteSets, TLC

\* ---- bounds of the scaled-down loaders used by Spec / SpecTest ----------
MaxTrain == 3      \* largest training-set length drawn in Init
MaxTest == 3       \* largest test-set length drawn in Init
MaxBatch == 2      \* largest batch_size drawn in Init
MaxLoss == 1       \* a batch loss is drawn from 0..MaxLoss
Classes == 2       \* arg-max / label values are drawn from 0..Classes-1

\* ---- program constants ---------------------------------------------------
batch_size == 64
TrainLen == 60000
TestLen == 10000
epochs == 10
ImgSize == 28
ShapeTestBatch == 64
verbose == FALSE

VARIABLES pc, t, i, nTrain, nTest, bsz, X, y, pred, loss,
          grad, params, optState, bn_tracked, training,
          test_loss, correct, report, out, output_size,
          steps, order, seen, calls

vars == <<pc, t, i, nTrain, nTest, bsz, X, y, pred, loss,
          grad, params, optState, bn_tracked, training,
          test_loss, correct, report, out, output_size,
          steps, order, seen, calls>>

\* ---- helpers -------------------------------------------------------------
Min(a, b) == IF a < b THEN a ELSE b

Last(s) == s[Len(s)]

IsPrefix(s, r) == Len(s) <= Len(r) /\ \A k \in 1..Len(s) : s[k] = r[k]

\* ---- DataLoader(dataset, batch_size=bs): drop_last defaults to False -----
\* len(dataloader)
NumBatches(n, bs) == (n + bs - 1) \div bs

\* number of examples in the k-th batch (k counted from 0)
BatchLen_full(n, bs, k) == bs

BatchLen(n, bs, k) == Min(bs, n - k * bs)

\* label of the j-th example of a dataset (j counted from 0)
Label(j) == j % Classes

\* labels of the k-th batch, aligned by position with the images
BatchLabels(n, bs, k) == [j \in 1..BatchLen(n, bs, k) |-> Label(k * bs + j - 1)]

\* ---- ConvNetModel ---------------------------------------------------------
\* An activation is threaded through the layers as a record:
\*   shape    the tensor's shape
\*   ops      the layers applied so far, in order of application
\*   tracked  num_batches_tracked of bn1 and bn2 (stands for their running
\*            statistics: running_mean, running_var change exactly when it does)
\*   training the module's training flag
\*   err      a layer has raised (shape mismatch); later layers are not run

\* floor((n + 2p - f)/s) + 1
OutSize(n, f, s, p) == ((n + 2 * p - f) \div s) + 1

\* A layer is written  CHOOSE r \in {body(v) : v \in {x}} : TRUE,  which is
\* body(x) with the activation x evaluated once, as a call evaluates its
\* argument before the layer runs.

Conv2d(x, name, in_channels, out_channels, kernel_size, stride, padding) ==
    CHOOSE r \in {
        IF v.err \/ Len(v.shape) # 4 THEN [v EXCEPT !.err = TRUE]
        ELSE IF v.shape[2] # in_channels
                \/ v.shape[3] + 2 * padding < kernel_size
                \/ v.shape[4] + 2 * padding < kernel_size
             THEN [v EXCEPT !.err = TRUE]
             ELSE [v EXCEPT !.shape = <<v.shape[1], out_channels,
                                        OutSize(v.shape[3], kernel_size, stride, padding),
                                        OutSize(v.shape[4], kernel_size, stride, padding)>>,
                            !.ops = Append(@, name)]
        : v \in {x}} : TRUE

\* BatchNorm2d with the default track_running_stats=True: in training mode it
\* normalizes with the batch statistics and updates the running statistics;
\* in eval mode it would use the running statistics and leave them alone.
BatchNorm2d_eval(x, name, num_features) ==
    CHOOSE r \in {
        IF v.err \/ Len(v.shape) # 4 THEN [v EXCEPT !.err = TRUE]
        ELSE IF v.shape[2] # num_features THEN [v EXCEPT !.err = TRUE]
             ELSE [v EXCEPT !.ops = Append(@, name)]
        : v \in {x}} : TRUE

BatchNorm2d(x, name, num_features) ==
    CHOOSE r \in {
        IF v.err \/ Len(v.shape) # 4 THEN [v EXCEPT !.err = TRUE]
        ELSE IF v.shape[2] # num_features
                \/ (v.training /\ v.shape[1] * v.shape[3] * v.shape[4] <= 1)
             THEN [v EXCEPT !.err = TRUE]
             ELSE [v EXCEPT !.ops = Append(@, name),
                            !.tracked[name] = IF v.training THEN @ + 1 ELSE @]
        : v \in {x}} : TRUE

\* MaxPool2d(kernel_size): the stride defaults to kernel_size, padding to 0
MaxPool2d(x, name, kernel_size) ==
    CHOOSE r \in {
        IF v.err \/ Len(v.shape) # 4 THEN [v EXCEPT !.err = TRUE]
        ELSE IF v.shape[3] < kernel_size \/ v.shape[4] < kernel_size
             THEN [v EXCEPT !.err = TRUE]
             ELSE [v EXCEPT !.shape = <<v.shape[1], v.shape[2],
                                        OutSize(v.shape[3], kernel_size, kernel_size, 0),
                                        OutSize(v.shape[4], kernel_size, kernel_size, 0)>>,
                            !.ops = Append(@, name)]
        : v \in {x}} : TRUE

\* F.relu
relu(x) ==
    CHOOSE r \in {IF v.err THEN v ELSE [v EXCEPT !.ops = Append(@, "relu")] : v \in {x}} : TRUE

conv1(x) == Conv2d(x, "conv1", 1, 6, 3, 1, 0)

bn1(x) == BatchNorm2d(x, "bn1", 6)

pool1(x) == MaxPool2d(x, "pool1", 2)

conv2_stride1(x) == Conv2d(x, "conv2", 6, 12, 3, 1, 0)

conv2(x) == Conv2d(x, "conv2", 6, 12, 3, 2, 0)

bn2(x) == BatchNorm2d(x, "bn2", 12)

pool2(x) == MaxPool2d(x, "pool2", 2)

\* nn.Flatten(): all dimensions after the first are merged
flatten(x) ==
    CHOOSE r \in {
        IF v.err \/ Len(v.shape) # 4 THEN [v EXCEPT !.err = TRUE]
        ELSE [v EXCEPT !.shape = <<v.shape[1], v.shape[2] * v.shape[3] * v.shape[4]>>,
                       !.ops = Append(@, "flatten")]
        : v \in {x}} : TRUE

Linear(x, name, in_features, out_features) ==
    CHOOSE r \in {
        IF v.err \/ Len(v.shape) # 2 THEN [v EXCEPT !.err = TRUE]
        ELSE IF v.shape[2] # in_features THEN [v EXCEPT !.err = TRUE]
             ELSE [v EXCEPT !.shape = <<v.shape[1], out_features>>,
                            !.ops = Append(@, name)]
        : v \in {x}} : TRUE

fc(x) == Linear(x, "fc", 12 * 3 * 3, 10)

\* LogSoftmax(dim=1)
output(x) ==
    CHOOSE r \in {IF v.err THEN v ELSE [v EXCEPT !.ops = Append(@, "output")] : v \in {x}} : TRUE

\* ConvNetModel.forward (debug=False in both constructions: nothing is printed)
forward(x) ==
    LET s1 == pool1(relu(bn1(conv1(x))))
        s2 == pool2(relu(bn2(conv2(s1))))
        fl == flatten(s2)
        h  == relu(fc(fl))
    IN  output(h)

\* model(X) on a batch of B images of shape (1, ImgSize, ImgSize)
CallModel(B) ==
    forward([shape |-> <<B, 1, ImgSize, ImgSize>>, ops |-> <<>>,
             tracked |-> bn_tracked, training |-> training, err |-> FALSE])

\* a freshly constructed module: training mode, no batches tracked
FreshBn == [b \in {"bn1", "bn2"} |-> 0]

NoPred == [shape |-> <<>>, ops |-> <<>>, argmax |-> <<>>, err |-> FALSE]

NoReport == [avg |-> <<0, 0>>, acc |-> <<0, 0>>, printed |-> FALSE]

NoneSeen == [batches |-> 0, sizes |-> 0, loss |-> 0, hits |-> 0]

\* ---- initial states -------------------------------------------------------
\* everything but the loaders and the program position
InitRest ==
    /\ t = 0 /\ i = 0
    /\ X = 0 /\ y = <<>> /\ pred = NoPred /\ loss = -1
    /\ grad = {} /\ params = 0 /\ optState = 0
    /\ bn_tracked = FreshBn /\ training = TRUE
    /\ test_loss = 0 /\ correct = 0 /\ report = NoReport
    /\ out = <<>> /\ output_size = <<>>
    /\ steps = <<>> /\ order = <<>> /\ seen = NoneSeen /\ calls = <<>>

\* The notebook run, on non-empty loaders scaled down to the bounds.
Init ==
    /\ nTrain \in 1..MaxTrain
    /\ nTest \in 1..MaxTest
    /\ bsz \in 1..MaxBatch
    /\ pc = "shape_test"
    /\ InitRest

\* ---- the shape test cell and the driver cell ------------------------------
\* model = ConvNetModel(debug=False); output = model(torch.randn(64, 1, 28, 28))
ShapeTest ==
    /\ pc = "shape_test"
    /\ LET r == CallModel(ShapeTestBatch)
       IN  IF r.err
           THEN /\ pc' = "RuntimeError"
                /\ UNCHANGED <<output_size, bn_tracked>>
           ELSE /\ pc' = "reset"
                /\ output_size' = r.shape
                /\ bn_tracked' = r.tracked
    /\ UNCHANGED <<t, i, nTrain, nTest, bsz, X, y, pred, loss, grad, params,
                   optState, training, test_loss, correct, report, out,
                   steps, order, seen, calls>>

\* model = ConvNetModel(); loss_fn = nn.NLLLoss(); optimizer = Adam(...)
ResetModel ==
    /\ pc = "reset"
    /\ bn_tracked' = FreshBn
    /\ training' = TRUE
    /\ params' = 0
    /\ optState' = 0
    /\ grad' = {}
    /\ t' = 0
    /\ pc' = "epoch"
    /\ UNCHANGED <<i, nTrain, nTest, bsz, X, y, pred, loss, test_loss, correct,
                   report, out, output_size, steps, order, seen, calls>>

\* range(epochs)
InRange_short(k) == k < epochs - 1

InRange_long(k) == k <= epochs

InRange(k) == k < epochs

\* for t in range(epochs): print(f"Epoch {t+1}..."); train_loop(train_loader, ...)
EpochStart ==
    /\ pc = "epoch"
    /\ InRange(t)
    /\ out' = Append(out, "Epoch")
    /\ calls' = Append(calls, "train")
    /\ i' = 0
    /\ order' = <<>>
    /\ pc' = "train_fetch"
    /\ UNCHANGED <<t, nTrain, nTest, bsz, X, y, pred, loss, grad, params,
                   optState, bn_tracked, training, test_loss, correct, report,
                   output_size, steps, seen>>

\* the for loop is exhausted: print("Done!")
PrintDone ==
    /\ pc = "epoch"
    /\ ~InRange(t)
    /\ out' = Append(out, "Done!")
    /\ pc' = "done"
    /\ UNCHANGED <<t, i, nTrain, nTest, bsz, X, y, pred, loss, grad, params,
                   optState, bn_tracked, training, test_loss, correct, report,
                   output_size, steps, order, seen, calls>>

\* ---- train_loop -----------------------------------------------------------
\* for i, (X, y) in enumerate(dataloader): the next batch
TrainFetch ==
    /\ pc = "train_fetch"
    /\ i < NumBatches(nTrain, bsz)
    /\ X' = BatchLen(nTrain, bsz, i)
    /\ y' = BatchLabels(nTrain, bsz, i)
    /\ pred' = NoPred
    /\ loss' = -1
    /\ steps' = <<>>
    /\ pc' = "train_forward"
    /\ UNCHANGED <<t, i, nTrain, nTest, bsz, grad, params, optState, bn_tracked,
                   training, test_loss, correct, report, out, output_size,
                   order, seen, calls>>

\* the loader is exhausted: train_loop returns to the driver
TrainReturn ==
    /\ pc = "train_fetch"
    /\ i >= NumBatches(nTrain, bsz)
    /\ X' = 0 /\ y' = <<>> /\ pred' = NoPred /\ loss' = -1
    /\ steps' = <<>>
    /\ pc' = "test_entry"
    /\ UNCHANGED <<t, i, nTrain, nTest, bsz, grad, params, optState, bn_tracked,
                   training, test_loss, correct, report, out, output_size,
                   order, seen, calls>>

\* pred = model(X)
TrainForward ==
    /\ pc = "train_forward"
    /\ LET r == CallModel(X)
       IN  IF r.err
           THEN /\ pc' = "RuntimeError"
                /\ UNCHANGED <<pred, bn_tracked, steps>>
           ELSE /\ pred' = [shape |-> r.shape, ops |-> r.ops,
                            argmax |-> <<>>, err |-> FALSE]
                /\ bn_tracked' = r.tracked
                /\ steps' = Append(steps, "forward")
                /\ pc' = "train_loss"
    /\ UNCHANGED <<t, i, nTrain, nTest, bsz, X, y, loss, grad, params, optState,
                   training, test_loss, correct, report, out, output_size,
                   order, seen, calls>>

\* NLLLoss takes an input of shape (B, C) and a target of shape (B)
LossShapesOk == Len(pred.shape) = 2 /\ pred.shape[1] = Len(y)

\* loss = loss_fn(pred, y)
TrainLoss ==
    /\ pc = "train_loss"
    /\ IF ~LossShapesOk
       THEN /\ pc' = "RuntimeError"
            /\ UNCHANGED <<loss, steps>>
       ELSE /\ \E l \in 0..MaxLoss : loss' = l
            /\ steps' = Append(steps, "loss")
            /\ pc' = "train_zero_grad"
    /\ UNCHANGED <<t, i, nTrain, nTest, bsz, X, y, pred, grad, params, optState,
                   bn_tracked, training, test_loss, correct, report, out,
                   output_size, order, seen, calls>>

\* optimizer.zero_grad(): grad holds the batches whose gradients are summed in .grad
ZeroGrad_skip ==
    /\ pc = "train_zero_grad"
    /\ steps' = Append(steps, "zero_grad")
    /\ pc' = "train_backward"
    /\ UNCHANGED <<t, i, nTrain, nTest, bsz, X, y, pred, loss, grad, params,
                   optState, bn_tracked, training, test_loss, correct, report,
                   out, output_size, order, seen, calls>>

ZeroGrad ==
    /\ pc = "train_zero_grad"
    /\ grad' = {}
    /\ steps' = Append(steps, "zero_grad")
    /\ pc' = "train_backward"
    /\ UNCHANGED <<t, i, nTrain, nTest, bsz, X, y, pred, loss, params, optState,
                   bn_tracked, training, test_loss, correct, report, out,
                   output_size, order, seen, calls>>

\* loss.backward(): the gradients of this batch's loss are added to .grad
Backward ==
    /\ pc = "train_backward"
    /\ grad' = grad \cup {<<t, i>>}
    /\ steps' = Append(steps, "backward")
    /\ pc' = "train_step"
    /\ UNCHANGED <<t, i, nTrain, nTest, bsz, X, y, pred, loss, params, optState,
                   bn_tracked, training, test_loss, correct, report, out,
                   output_size, order, seen, calls>>

\* optimizer.step(): Adam updates every parameter that has a gradient
OptimizerStep ==
    /\ pc = "train_step"
    /\ IF grad = {}
       THEN UNCHANGED <<params, optState>>
       ELSE /\ params' = params + 1
            /\ optState' = optState + 1
    /\ order' = Append(order, i)
    /\ steps' = Append(steps, "step")
    /\ pc' = "train_print"
    /\ UNCHANGED <<t, i, nTrain, nTest, bsz, X, y, pred, loss, grad, bn_tracked,
                   training, test_loss, correct, report, out, output_size,
                   seen, calls>>

\* if verbose and i % 100 == 0: print the loss; then the next iteration
TrainPrint ==
    /\ pc = "train_print"
    /\ out' = IF verbose /\ i % 100 = 0 THEN Append(out, "loss") ELSE out
    /\ i' = i + 1
    /\ pc' = "train_fetch"
    /\ UNCHANGED <<t, nTrain, nTest, bsz, X, y, pred, loss, grad, params,
                   optState, bn_tracked, training, test_loss, correct, report,
                   output_size, steps, order, seen, calls>>

\* ---- test_loop (under torch.no_grad) --------------------------------------
\* test_loop(test_loader, model, loss_fn): test_loss, correct = 0, 0
TestEntry ==
    /\ pc = "test_entry"
    /\ test_loss' = 0
    /\ correct' = 0
    /\ i' = 0
    /\ seen' = NoneSeen
    /\ report' = NoReport
    /\ calls' = Append(calls, "test")
    /\ pc' = "test_fetch"
    /\ UNCHANGED <<t, nTrain, nTest, bsz, X, y, pred, loss, grad, params,
                   optState, bn_tracked, training, out, output_size, steps,
                   order>>

\* for X, y in dataloader: the next batch
TestFetch ==
    /\ pc = "test_fetch"
    /\ i < NumBatches(nTest, bsz)
    /\ X' = BatchLen(nTest, bsz, i)
    /\ y' = BatchLabels(nTest, bsz, i)
    /\ pred' = NoPred
    /\ loss' = -1
    /\ pc' = "test_forward"
    /\ UNCHANGED <<t, i, nTrain, nTest, bsz, grad, params, optState, bn_tracked,
                   training, test_loss, correct, report, out, output_size,
                   steps, order, seen, calls>>

\* the loader is exhausted
TestExhausted ==
    /\ pc = "test_fetch"
    /\ i >= NumBatches(nTest, bsz)
    /\ X' = 0 /\ y' = <<>> /\ pred' = NoPred /\ loss' = -1
    /\ pc' = "test_finish"
    /\ UNCHANGED <<t, i, nTrain, nTest, bsz, grad, params, optState, bn_tracked,
                   training, test_loss, correct, report, out, output_size,
                   steps, order, seen, calls>>

\* pred = model(X): no_grad disables gradient tracking, not the module's mode
TestForward ==
    /\ pc = "test_forward"
    /\ LET r == CallModel(X)
       IN  IF r.err
           THEN /\ pc' = "RuntimeError"
                /\ UNCHANGED <<pred, bn_tracked>>
           ELSE /\ pred' = [shape |-> r.shape, ops |-> r.ops,
                            argmax |-> <<>>, err |-> FALSE]
                /\ bn_tracked' = r.tracked
                /\ pc' = "test_loss"
    /\ UNCHANGED <<t, i, nTrain, nTest, bsz, X, y, loss, grad, params, optState,
                   training, test_loss, correct, report, out, output_size,
                   steps, order, seen, calls>>

\* loss = loss_fn(pred, y)
TestLoss_step ==
    /\ pc = "test_loss"
    /\ \E l \in 0..MaxLoss : loss' = l
    /\ params' = params + 1
    /\ optState' = optState + 1
    /\ pc' = "test_accum"
    /\ UNCHANGED <<t, i, nTrain, nTest, bsz, X, y, pred, grad, bn_tracked,
                   training, test_loss, correct, report, out, output_size,
                   steps, order, seen, calls>>

TestLoss ==
    /\ pc = "test_loss"
    /\ IF ~LossShapesOk
       THEN /\ pc' = "RuntimeError"
            /\ UNCHANGED loss
       ELSE /\ \E l \in 0..MaxLoss : loss' = l
            /\ pc' = "test_accum"
    /\ UNCHANGED <<t, i, nTrain, nTest, bsz, X, y, pred, grad, params, optState,
                   bn_tracked, training, test_loss, correct, report, out,
                   output_size, steps, order, seen, calls>>

\* (pred.argmax(1) == y).type(torch.float).sum().item()
Hits(am, yy) == Cardinality({j \in 1..Len(yy) : am[j] = yy[j]})

\* test_loss += loss.item()
AddLoss(total, l) == total + l

\* correct += (number of matches in the batch)
AddCorrect(c, am, yy) == c + Hits(am, yy)

\* test_loss += loss.item(); correct += ...; then the next iteration
TestAccumulate ==
    /\ pc = "test_accum"
    /\ \E am \in [1..X -> 0..(Classes - 1)] :
          /\ pred' = [pred EXCEPT !.argmax = am]
          /\ correct' = AddCorrect(correct, am, y)
          /\ seen' = [batches |-> seen.batches + 1,
                      sizes   |-> seen.sizes + X,
                      loss    |-> seen.loss + loss,
                      hits    |-> seen.hits + Hits(am, y)]
    /\ test_loss' = AddLoss(test_loss, loss)
    /\ i' = i + 1
    /\ pc' = "test_fetch"
    /\ UNCHANGED <<t, nTrain, nTest, bsz, X, y, loss, grad, params, optState,
                   bn_tracked, training, report, out, output_size, steps,
                   order, calls>>

\* test_loss /= len(dataloader), as the fraction <<numerator, denominator>>
AvgLoss_perExample(total, n, bs) == <<total, n>>

AvgLoss(total, n, bs) == <<total, NumBatches(n, bs)>>

\* test_acc = correct / len(dataloader.dataset)
Accuracy_perBatch(c, n, bs) == <<c, NumBatches(n, bs)>>

Accuracy(c, n, bs) == <<c, n>>

\* the two divisions and the report line; a zero divisor raises
TestFinish ==
    /\ pc = "test_finish"
    /\ LET avg == AvgLoss(test_loss, nTest, bsz)
           acc == Accuracy(correct, nTest, bsz)
       IN  IF avg[2] = 0 \/ acc[2] = 0
           THEN /\ pc' = "ZeroDivisionError"
                /\ UNCHANGED <<report, out>>
           ELSE /\ report' = [avg |-> avg, acc |-> acc, printed |-> TRUE]
                /\ out' = Append(out, "Report")
                /\ pc' = "test_return"
    /\ UNCHANGED <<t, i, nTrain, nTest, bsz, X, y, pred, loss, grad, params,
                   optState, bn_tracked, training, test_loss, correct,
                   output_size, steps, order, seen, calls>>

\* test_loop returns; the driver's for loop takes its next value
TestReturn ==
    /\ pc = "test_return"
    /\ t' = t + 1
    /\ report' = NoReport
    /\ test_loss' = 0
    /\ correct' = 0
    /\ seen' = NoneSeen
    /\ pc' = "epoch"
    /\ UNCHANGED <<i, nTrain, nTest, bsz, X, y, pred, loss, grad, params,
                   optState, bn_tracked, training, out, output_size, steps,
                   order, calls>>

\* ---- one pass over each of the two loaders, at their real sizes -----------
\* for X, y in train_loader / test_loader: i counts the batches yielded so far
LoaderYield ==
    /\ pc \in {"data_train", "data_test"}
    /\ LET n == IF pc = "data_train" THEN nTrain ELSE nTest
       IN  /\ i < NumBatches(n, bsz)
           /\ X' = BatchLen(n, bsz, i)
           /\ y' = BatchLabels(n, bsz, i)
    /\ i' = i + 1
    /\ UNCHANGED <<pc, t, nTrain, nTest, bsz, pred, loss, grad, params,
                   optState, bn_tracked, training, test_loss, correct, report,
                   out, output_size, steps, order, seen, calls>>

LoaderExhausted ==
    /\ pc \in {"data_train", "data_test"}
    /\ i >= NumBatches(IF pc = "data_train" THEN nTrain ELSE nTest, bsz)
    /\ pc' = IF pc = "data_train" THEN "data_test" ELSE "data_end"
    /\ i' = 0
    /\ X' = 0
    /\ y' = <<>>
    /\ UNCHANGED <<t, nTrain, nTest, bsz, pred, loss, grad, params, optState,
                   bn_tracked, training, test_loss, correct, report, out,
                   output_size, steps, order, seen, calls>>

\* ---- specifications -------------------------------------------------------
Next ==
    \/ ShapeTest \/ ResetModel \/ EpochStart \/ PrintDone
    \/ TrainFetch \/ TrainReturn \/ TrainForward \/ TrainLoss
    \/ ZeroGrad \/ Backward \/ OptimizerStep \/ TrainPrint
    \/ TestEntry \/ TestFetch \/ TestExhausted \/ TestForward \/ TestLoss
    \/ TestAccumulate \/ TestFinish \/ TestReturn

Spec == Init /\ [][Next]_vars

\* The run is one sequential thread: a step that can be taken is taken.
FairSpec == Init /\ [][Next]_vars /\ WF_vars(Next)

\* test_loop as a function of any loader, the empty one included.
InitTest ==
    /\ nTrain = 0
    /\ nTest \in 0..MaxTest
    /\ bsz \in 1..MaxBatch
    /\ pc = "test_entry"
    /\ InitRest

NextTest ==
    \/ TestEntry \/ TestFetch \/ TestExhausted \/ TestForward \/ TestLoss
    \/ TestAccumulate \/ TestFinish

SpecTest == InitTest /\ [][NextTest]_vars

\* The two FashionMNIST loaders as the notebook builds them.
InitData ==
    /\ nTrain = TrainLen
    /\ nTest = TestLen
    /\ bsz = batch_size
    /\ pc = "data_train"
    /\ InitRest

NextData == LoaderYield \/ LoaderExhausted

SpecData == InitData /\ [][NextData]_vars

\* ---- properties -----------------------------------------------------------
TrainLoopPcs == {"train_fetch", "train_forward", "train_loss", "train_zero_grad",
                 "train_backward", "train_step", "train_print"}

TestLoopPcs == {"test_entry", "test_fetch", "test_forward", "test_loss",
                "test_accum", "test_finish"}

ForwardPcs == {"shape_test", "train_forward", "test_forward"}

InputOf(B) == [shape |-> <<B, 1, ImgSize, ImgSize>>, ops |-> <<>>,
               tracked |-> FreshBn, training |-> TRUE, err |-> FALSE]

\* C1: model(X) on a batch of B >= 1 images of shape (1,28,28) has shape
\* exactly (B,10); the stages give spatial sizes 28 -> 26 -> 13 -> 6 -> 3, the
\* flattened 12*3*3 features fit the linear layer, and no stage raises.
C1_OutputShape ==
    /\ pc # "RuntimeError"
    /\ (output_size # <<>> => output_size = <<ShapeTestBatch, 10>>)
    /\ (pc \in {"train_loss", "test_loss"} =>
          /\ X >= 1
          /\ pred.shape = <<X, 10>>
          /\ conv1(InputOf(X)).shape = <<X, 6, 26, 26>>
          /\ pool1(relu(bn1(conv1(InputOf(X))))).shape = <<X, 6, 13, 13>>
          /\ conv2(pool1(relu(bn1(conv1(InputOf(X)))))).shape = <<X, 12, 6, 6>>
          /\ pool2(relu(bn2(conv2(pool1(relu(bn1(conv1(InputOf(X))))))))).shape
                = <<X, 12, 3, 3>>)

C1_Witness ==
    /\ pc = "test_loss" /\ X = 1 /\ bsz = 2 /\ pred.shape = <<1, 10>>
    /\ output_size = <<64, 10>>

TestLoopKeeps ==
    pc \in TestLoopPcs => (params' = params /\ optState' = optState /\ grad' = grad)

\* C2: no step of test_loop changes the learnable parameters, the optimizer
\* state or the stored gradients.
C2_TestLoopFrame == [][TestLoopKeeps]_vars

C2_Witness == pc = "test_accum" /\ params > 0 /\ i = 1 /\ t = 1

\* C3 as stated: per batch the order is forward, loss, backward, optimizer
\* step, then zero_grad, so that a batch begins with cleared gradients.
C3_Original ==
    /\ IsPrefix(steps, <<"forward", "loss", "backward", "step", "zero_grad">>)
    /\ (pc = "train_forward" => grad = {})

TrainOrder == <<"forward", "loss", "zero_grad", "backward", "step">>

\* the batch processed before batch i of epoch t
PrevBatch == IF i > 0 THEN <<t, i - 1>> ELSE <<t - 1, NumBatches(nTrain, bsz) - 1>>

\* C3 amended: per batch the order is forward, loss, zero_grad, backward, one
\* optimizer step; the step uses the gradients of this batch alone, each batch
\* completes before the next starts, and the gradients are not cleared after
\* the step: the next batch begins with the previous batch's gradients.
C3_Amended ==
    /\ IsPrefix(steps, TrainOrder)
    /\ (pc = "train_step" => grad = {<<t, i>>})
    /\ (pc = "train_print" =>
          /\ steps = TrainOrder
          /\ grad = {<<t, i>>}
          /\ optState = t * NumBatches(nTrain, bsz) + i + 1)
    /\ (pc = "train_forward" =>
          /\ steps = <<>>
          /\ optState = t * NumBatches(nTrain, bsz) + i
          /\ grad = IF t = 0 /\ i = 0 THEN {} ELSE {PrevBatch})

C3_Witness ==
    /\ pc = "train_forward" /\ i = 1 /\ grad = {<<t, 0>>} /\ optState = 1

StaysEvaluated ==
    (calls # <<>> /\ Last(calls) = "test") => Last(calls') = "test"

\* C4 as stated: once test_loop has been called, train_loop is never called again.
C4_Original == [][StaysEvaluated]_vars

\* C4 amended: the run alternates train_loop and test_loop, one of each per
\* epoch for `epochs` epochs, with no branching or retry; training is not
\* re-entered only after the last epoch's evaluation.
C4_Amended ==
    /\ \A k \in 1..Len(calls) : calls[k] = IF k % 2 = 1 THEN "train" ELSE "test"
    /\ Len(calls) <= 2 * epochs
    /\ (pc \in TrainLoopPcs => Len(calls) = 2 * t + 1)
    /\ (pc \in (TestLoopPcs \ {"test_entry"}) \cup {"test_return"} =>
          Len(calls) = 2 * t + 2)
    /\ (pc = "done" => Len(calls) = 2 * epochs /\ Last(calls) = "test")

C4_Witness == pc = "train_fetch" /\ calls = <<"train", "test", "train">>

\* C5 as stated: for every loader the divisions of test_loop are defined and
\* 0 <= correct <= total examples.
C5_Original ==
    /\ pc # "ZeroDivisionError"
    /\ 0 <= correct /\ correct <= nTest

\* C5 amended: for every loader with at least one example the divisions are
\* defined and the accuracy lies in [0,1]; 0 <= correct <= examples iterated
\* <= len(dataset) throughout; on an empty loader test_loop raises
\* ZeroDivisionError.
C5_Amended ==
    /\ 0 <= correct /\ correct <= seen.sizes /\ seen.sizes <= nTest
    /\ (pc = "ZeroDivisionError" <=> (nTest = 0 /\ ~ENABLED NextTest))
    /\ (pc = "test_return" =>
          /\ report.printed
          /\ report.acc[2] > 0
          /\ 0 <= report.acc[1] /\ report.acc[1] <= report.acc[2])

C5_Witness ==
    /\ pc = "test_return" /\ nTest = 3 /\ bsz = 2 /\ report.acc = <<3, 3>>

\* C6 as stated: every batch either loader yields has batch_size examples.
C6_Original ==
    (pc \in {"data_train", "data_test"} /\ i >= 1) => (X = batch_size /\ Len(y) = batch_size)

\* C6 amended: every batch but the last of a pass has 64 examples; the last
\* (938th) training batch has 32 and the last (157th) test batch has 16;
\* images and labels of a batch are equally many.
C6_Amended ==
    /\ Len(y) = X
    /\ (pc = "data_train" /\ i >= 1 =>
          i <= 938 /\ X = IF i < 938 THEN 64 ELSE 32)
    /\ (pc = "data_test" /\ i >= 1 =>
          i <= 157 /\ X = IF i < 157 THEN 64 ELSE 16)
    /\ (pc = "data_test" /\ i = 0 => X = 0)

C6_Witness == pc = "data_test" /\ i = 157 /\ X = 16

ForwardKeepsAll ==
    pc \in ForwardPcs => (params' = params /\ bn_tracked' = bn_tracked)

ForwardTracks ==
    pc \in ForwardPcs =>
        \/ UNCHANGED vars
        \/ /\ params' = params /\ optState' = optState /\ grad' = grad
           /\ training' = training
           /\ \A b \in {"bn1", "bn2"} : bn_tracked'[b] = bn_tracked[b] + 1

\* C7 as stated: a forward pass leaves the parameters and the batch-norm
\* running statistics unchanged.
C7_Original == [][ForwardKeepsAll]_vars

\* C7 amended: a forward pass, in train_loop and in test_loop alike, leaves
\* the parameters, the optimizer state and the gradients unchanged, and
\* updates the running statistics of both batch-norm layers once (the module
\* is never put in eval mode).
C7_Amended == [][ForwardTracks]_vars

C7_Witness ==
    /\ pc = "test_loss" /\ t = 0 /\ i = 0
    /\ bn_tracked["bn2"] = NumBatches(nTrain, bsz) + 1

\* C8: in each convolution stage the layers are applied in the order
\* convolution, ReLU, batch norm, max-pool.
C8_StageOrder ==
    pred.ops # <<>> =>
        /\ SubSeq(pred.ops, 1, 4) = <<"conv1", "relu", "bn1", "pool1">>
        /\ SubSeq(pred.ops, 5, 8) = <<"conv2", "relu", "bn2", "pool2">>

\* C9: the reported average loss is the sum of the batch losses over the
\* number of batches iterated, and the reported accuracy is the number of
\* matching examples over the sum of the sizes of the batches iterated.
C9_Report ==
    report.printed =>
        /\ seen.batches >= 1
        /\ report.avg = <<seen.loss, seen.batches>>
        /\ report.acc = <<seen.hits, seen.sizes>>

C9_Witness ==
    /\ report.printed /\ nTest = 3 /\ bsz = 2
    /\ report.avg = <<1, 2>> /\ report.acc = <<2, 3>>

ExpectedOut ==
    [k \in 1..(2 * epochs + 1) |->
        IF k = 2 * epochs + 1 THEN "Done!"
        ELSE IF k % 2 = 1 THEN "Epoch" ELSE "Report"]

\* C10: the run reaches "Done!"; by then it has made epochs * n optimizer
\* steps, each pass having stepped batches 0..n-1 once each in order, and has
\* printed one report per epoch, after that epoch's training pass.
C10_RunsToCompletion ==
    /\ <>(pc = "done")
    /\ [](pc = "done" =>
            /\ optState = epochs * NumBatches(nTrain, bsz)
            /\ params = epochs * NumBatches(nTrain, bsz)
            /\ out = ExpectedOut)
    /\ [](pc = "test_entry" =>
            /\ order = [k \in 1..NumBatches(nTrain, bsz) |-> k - 1]
            /\ optState = (t + 1) * NumBatches(nTrain, bsz))
    /\ [](pc = "test_return" =>
            /\ Len(out) = 2 * (t + 1)
            /\ Last(out) = "Report"
            /\ optState = (t + 1) * NumBatches(nTrain, bsz))

C10_Witness ==
    /\ pc = "done" /\ nTrain = 3 /\ bsz = 2 /\ optState = 20
    /\ Len(SelectSeq(out, LAMBDA e : e = "Report")) = 10

====
